---- MODULE Spec2Model ----
(***************************************************************************)
(* Control logic of seq2seq/shi_generator.py: create_model(), train() and  *)
(* decode().  The neural model, the saver, the vocabulary and the data     *)
(* reader are collaborators outside the file; a call to one of them is a   *)
(* nondeterministic choice over the values it can return.                  *)
(*                                                                         *)
(* Floats are IEEE-754 doubles, computed as Python computes them: every    *)
(* division and addition rounds to the nearest double (section "Python     *)
(* floats").  `loss`, `step_time`, the entries of `previous_losses` and    *)
(* of `train_buckets_scale` and the draws of np.random.random_sample()     *)
(* are such doubles.  `learning_rate` holds the number of times            *)
(* learning_rate_decay_op has been run on the rate create_model()          *)
(* produced.                                                               *)
(***************************************************************************)
EXTENDS Integers, Sequences, FiniteSets

\* ------------------------------------------------------------------ bounds
MaxCount == 2        \* examples per training bucket tried by the bucket selection
Resolution == 2      \* draws are the multiples of 1 / (Resolution * total)
MaxInterval == 2     \* largest --steps_per_checkpoint tried
MaxCheckpoints == 4  \* checkpoint events a train() run is followed for
DevSize == 1         \* held-out examples of a non-empty bucket
MaxLineLen == 20     \* tokens of an input line of decode()
MaxLines == 2        \* lines on the standard input of decode()
MaxHistory == 5      \* checkpoint events followed when the history outgrows 3
MaxLongEvents == 2   \* checkpoint events followed over a long interval

\* --------------------------------------------------------------- constants
_buckets == << <<5, 6>>, <<6, 7>>, <<8, 9>>, <<15, 16>> >>
_show_example_num == 5
EOS_ID == 2
HistoryWindow == 3
PplThreshold == 300

NumBuckets == Len(_buckets)
BucketIds == 0 .. (NumBuckets - 1)

\* Values the collaborators return, whole numbers held in floats: the loss
\* of a training step, the loss of an evaluation step, the seconds a
\* training step takes.
StepLosses == {0, 300}
EvalLosses == {299, 300, 710}
StepTimes == {1}

VARIABLES
    mode,                 \* entry point: "train" | "decode" | "select"
    pc,                   \* position in the running function
    error,                \* exception that ended the run, "none" while running
    steps_per_checkpoint, \* FLAGS.steps_per_checkpoint
    train_set,            \* bucket -> number of training examples read
    dev_set,              \* bucket -> number of held-out examples read
    train_bucket_sizes,   \* line 132
    train_total_size,     \* line 133
    train_buckets_scale,  \* line 138
    step_time, loss,      \* line 142
    current_step,         \* line 143
    previous_losses,      \* line 144
    learning_rate,        \* model.learning_rate (number of decays run)
    checkpoint,           \* the latest checkpoint of FLAGS.train_dir
    global_step,          \* model.global_step
    random_number_01,     \* line 150
    bucket_id,            \* lines 151, 180, 243
    perplexity,           \* line 167
    eval_loss,            \* line 186
    eval_ppx,             \* line 188
    eval_calls,           \* eval loop: model calls and empty-bucket warnings
    show_i,               \* line 197: loop variable i
    ori_text, out_text, target_text,  \* lines 199-218
    stdin,                \* decode(): lines not read yet (token counts)
    sentence,             \* decode(): line 237/270, -1 for the empty read
    token_ids,            \* decode(): line 241 (its length)
    outputs,              \* decode(): line 260/264
    io,                   \* the banner of create_model, then the prompts,
                          \* reads and printed lines of decode() in order
    warnings              \* decode(): logging.warning calls

vars == << mode, pc, error, steps_per_checkpoint, train_set, dev_set,
           train_bucket_sizes, train_total_size, train_buckets_scale,
           step_time, loss, current_step, previous_losses, learning_rate,
           checkpoint, global_step, random_number_01, bucket_id, perplexity,
           eval_loss,
           eval_ppx, eval_calls, show_i, ori_text, out_text, target_text,
           stdin, sentence, token_ids, outputs, io, warnings >>

\* the inputs of a run: flags and data files
inputVars == << mode, steps_per_checkpoint, train_set, dev_set >>
\* lines 132-139
scaleVars == << train_bucket_sizes, train_total_size, train_buckets_scale >>
\* the training state and the accumulators
stateVars == << step_time, loss, current_step, previous_losses, learning_rate,
                checkpoint, global_step >>
\* what the evaluation loop writes
evalVars == << eval_loss, eval_ppx, eval_calls, show_i, ori_text, out_text, target_text >>
\* the locals and streams of decode()
decodeVars == << stdin, sentence, token_ids, outputs, io, warnings >>

\* ------------------------------------------------------- Python floats
\* A Python float is an IEEE-754 double.  The doubles train() meets are
\* finite, not negative and not subnormal.  Such a double is 0.0, written
\* <<0, 0, 0>>, or m * 2^e with 2^52 <= m < 2^53, written <<e, hi, lo>>
\* with m = hi * 2^27 + lo and lo < 2^27.  The arithmetic works on natural
\* numbers of any size, each held as the sequence of its digits in base
\* LimbBase, the lowest digit first and the highest digit not 0.
LimbBits == 9
MantissaBits == 53

RECURSIVE Pow2(_)
Pow2(k) == IF k = 0 THEN 1 ELSE 2 * Pow2(k - 1)

LimbBase == Pow2(LimbBits)
RECURSIVE IntBitLen(_)
\* the number of bits of n
IntBitLen(n) == IF n = 0 THEN 0 ELSE 1 + IntBitLen(n \div 2)

RECURSIVE BigFromInt(_)
BigFromInt(n) ==
    IF n = 0 THEN <<>> ELSE <<n % LimbBase>> \o BigFromInt(n \div LimbBase)

RECURSIVE BigTrim(_)
\* without the digits 0 at the high end
BigTrim(a) ==
    IF a # <<>> /\ a[Len(a)] = 0 THEN BigTrim(SubSeq(a, 1, Len(a) - 1)) ELSE a

BigBitLen(a) ==
    IF a = <<>> THEN 0 ELSE (Len(a) - 1) * LimbBits + IntBitLen(a[Len(a)])

RECURSIVE BigMulFrom(_, _, _, _)
BigMulFrom(a, n, k, carry) ==
    IF k > Len(a) THEN BigFromInt(carry)
    ELSE LET t == a[k] * n + carry
         IN  <<t % LimbBase>> \o BigMulFrom(a, n, k + 1, t \div LimbBase)

\* a * n for 0 <= n < 2^22
BigMulSmall(a, n) == BigTrim(BigMulFrom(a, n, 1, 0))

\* a * 2^k
BigShl(a, k) ==
    IF a = <<>> THEN <<>>
    ELSE [i \in 1 .. (k \div LimbBits) |-> 0] \o BigMulSmall(a, Pow2(k % LimbBits))

RECURSIVE BigAddFrom(_, _, _, _)
BigAddFrom(a, b, k, carry) ==
    IF k > Len(a) /\ k > Len(b) THEN BigFromInt(carry)
    ELSE LET t == (IF k <= Len(a) THEN a[k] ELSE 0)
                  + (IF k <= Len(b) THEN b[k] ELSE 0) + carry
         IN  <<t % LimbBase>> \o BigAddFrom(a, b, k + 1, t \div LimbBase)

BigAdd(a, b) == BigAddFrom(a, b, 1, 0)

RECURSIVE BigPred(_)
\* a - 1 for a > 0
BigPred(a) ==
    IF a[1] > 0 THEN BigTrim(<<a[1] - 1>> \o Tail(a))
    ELSE <<LimbBase - 1>> \o BigPred(Tail(a))

RECURSIVE BigLessFrom(_, _, _)
BigLessFrom(a, b, k) ==
    IF k = 0 THEN FALSE
    ELSE IF a[k] # b[k] THEN a[k] < b[k]
    ELSE BigLessFrom(a, b, k - 1)

\* a < b
BigLess(a, b) ==
    IF Len(a) # Len(b) THEN Len(a) < Len(b) ELSE BigLessFrom(a, b, Len(a))

RECURSIVE BigDivFrom(_, _, _, _, _)
\* long division of the digits of a from the k-th down by n: r is the
\* remainder and q the quotient of the digits above the k-th
BigDivFrom(a, n, k, r, q) ==
    IF k = 0 THEN <<BigTrim(q), r>>
    ELSE BigDivFrom(a, n, k - 1, (r * LimbBase + a[k]) % n,
                    <<(r * LimbBase + a[k]) \div n>> \o q)

\* <<a \div n, a % n>> for 0 < n < 2^22
BigDivSmall(a, n) == BigDivFrom(a, n, Len(a), 0, <<>>)

\* <<the quotient of d, its remainder or a digit of low is not 0>>
BigInexact(d, low) == <<d[1], d[2] # 0 \/ \E i \in 1 .. Len(low) : low[i] # 0>>

\* <<a \div 2^k, some bit was dropped>>
BigShr(a, k) ==
    BigInexact(BigDivSmall(SubSeq(a, k \div LimbBits + 1, Len(a)),
                           Pow2(k % LimbBits)),
               SubSeq(a, 1, IF k \div LimbBits < Len(a)
                            THEN k \div LimbBits ELSE Len(a)))

Zero == <<0, 0, 0>>

\* the mantissa of a float, as digits
Mantissa(x) ==
    IF x = Zero THEN <<>>
    ELSE <<x[3] % LimbBase, (x[3] \div LimbBase) % LimbBase,
           x[3] \div (LimbBase * LimbBase),
           x[2] % LimbBase, (x[2] \div LimbBase) % LimbBase,
           x[2] \div (LimbBase * LimbBase)>>

\* m * 2^e for a mantissa m of 53 bits, given as its 6 digits
Packed(m, e) ==
    <<e, m[4] + LimbBase * (m[5] + LimbBase * m[6]),
         m[1] + LimbBase * (m[2] + LimbBase * m[3])>>

\* m * 2^e for a mantissa m of 53 bits, or of 54 bits when m = 2^53
FloatNormal(m, e) ==
    IF BigBitLen(m) > MantissaBits THEN Packed(BigShr(m, 1)[1], e + 1)
    ELSE Packed(m, e)

\* down or down + 1 times 2^e: up when the half bit dropped from down is
\* set and more was dropped below it, or down is odd (a tie goes to the
\* even mantissa)
FloatNearest(down, half, more, e) ==
    FloatNormal(IF half /\ (more \/ down[1] % 2 = 1)
                THEN BigAdd(down, <<1>>) ELSE down, e)

\* kept = <<a mantissa of 54 bits, something was dropped below it>>
FloatHalve(kept, more, e) ==
    FloatNearest(BigShr(kept[1], 1)[1], kept[1][1] % 2 = 1, kept[2] \/ more, e)

\* a * 2^e rounded, a having drop bits more than a mantissa
FloatDrop(a, e, more, drop) ==
    IF drop <= 0 THEN Packed(BigShl(a, 0 - drop), e + drop)
    ELSE FloatHalve(BigShr(a, drop - 1), more, e + drop)

\* the double nearest to a * 2^e, or to a value strictly between a * 2^e
\* and (a + 1) * 2^e when more is set (then a has 55 bits or more)
FloatRound(a, e, more) ==
    IF a = <<>> THEN Zero ELSE FloatDrop(a, e, more, BigBitLen(a) - MantissaBits)

\* float(n) for an int 0 <= n < 2^31
Float(n) == FloatRound(BigFromInt(n), 0, FALSE)

\* the quotient d[1] and remainder d[2] of a division, times 2^e, rounded
FloatQuotient(d, e) == FloatRound(d[1], e, d[2] # 0)

\* m * 2^e / n, the mantissa shifted by s bits to leave the quotient 55
\* bits or more
FloatDivShifted(m, e, n, s) == FloatQuotient(BigDivSmall(BigShl(m, s), n), e - s)

\* x / n for a float x and an int 0 < n < 2^22
FloatDivInt(x, n) ==
    IF x = Zero THEN Zero
    ELSE FloatDivShifted(Mantissa(x), x[1], n, IntBitLen(n) + 2)

\* hi + lo for floats above 0 with the exponent of hi not below that of lo
FloatAddOrdered(hi, lo) ==
    IF hi[1] - lo[1] > MantissaBits + 2 THEN hi
    ELSE FloatRound(BigAdd(BigShl(Mantissa(hi), hi[1] - lo[1]), Mantissa(lo)),
                    lo[1], FALSE)

\* x + y
FloatAdd(x, y) ==
    IF x = Zero THEN y
    ELSE IF y = Zero THEN x
    ELSE IF x[1] >= y[1] THEN FloatAddOrdered(x, y)
    ELSE FloatAddOrdered(y, x)

\* x < y
FloatLess(x, y) ==
    IF y = Zero THEN FALSE
    ELSE IF x = Zero THEN TRUE
    ELSE IF x[1] # y[1] THEN x[1] < y[1]
    ELSE IF x[2] # y[2] THEN x[2] < y[2]
    ELSE x[3] < y[3]

\* k / n for ints 0 <= k < 2^31 and 0 < n < 2^22, k made a float first
IntQuotient(k, n) == FloatDivInt(Float(k), n)

\* the quotients of small numbers and of the values the collaborators
\* return, computed once
CachedInts == 0 .. 16
QuotientCache ==
    [n \in CachedInts \ {0} |->
        [k \in CachedInts \cup StepLosses \cup StepTimes |-> IntQuotient(k, n)]]

\* k / n, looked up where it is known
Quotient(k, n) ==
    IF n \in DOMAIN QuotientCache /\ k \in DOMAIN QuotientCache[n]
    THEN QuotientCache[n][k] ELSE IntQuotient(k, n)

\* max(S) for a non-empty set of floats
FloatMax(S) == CHOOSE x \in S : \A y \in S : ~FloatLess(x, y)

\* the largest double math.exp does not overflow on, 709.782712893384 =
\* 6243314768165359 * 2^-43
ExpMax == <<-43, 46516319, 117062127>>

\* ---------------------------------------------------------- pure functions
RECURSIVE SumUpTo(_, _)
\* sum(train_bucket_sizes[:i + 1])
SumUpTo(sizes, i) == IF i < 0 THEN 0 ELSE sizes[i] + SumUpTo(sizes, i - 1)

\* slip: sum(train_bucket_sizes[:i]) in place of [:i + 1]
BucketsScaleExclusive(sizes) ==
    [k \in 1 .. NumBuckets |->
        Quotient(SumUpTo(sizes, k - 2), SumUpTo(sizes, NumBuckets - 1))]

\* lines 138-139: sum(train_bucket_sizes[:i + 1]) / train_total_size, each
\* quotient rounded to a double
BucketsScale(sizes) ==
    [k \in 1 .. NumBuckets |->
        Quotient(SumUpTo(sizes, k - 1), SumUpTo(sizes, NumBuckets - 1))]

\* slip: >= in place of >
ScaleAboveOrEqual(scale, i, u) == ~FloatLess(scale[i + 1], u)

\* line 152: train_buckets_scale[i] > random_number_01
ScaleAbove(scale, i, u) == FloatLess(u, scale[i + 1])

SetMin(S) == CHOOSE x \in S : \A y \in S : x <= y
SetMax(S) == CHOOSE x \in S : \A y \in S : x >= y

\* max(S), -1 when S is empty
MaxOrNone(S) == IF S = {} THEN -1 ELSE SetMax(S)

\* line 151: min(S); -1 stands for min([]) raising ValueError
MinOrNone(S) == IF S = {} THEN -1 ELSE SetMin(S)

\* slip: max in place of min
ChooseBucketMax(scale, u) ==
    MaxOrNone({i \in 0 .. (Len(scale) - 1) : ScaleAbove(scale, i, u)})

\* lines 151-152
ChooseBucket(scale, u) ==
    MinOrNone({i \in 0 .. (Len(scale) - 1) : ScaleAbove(scale, i, u)})

\* math.exp(x): OverflowError on every double above ExpMax
MathExp(x) ==
    IF FloatLess(ExpMax, x) THEN <<"OverflowError", x>> ELSE <<"exp", x>>

\* slip: <= in place of <
PerplexityInclusive(x) ==
    IF ~FloatLess(Float(PplThreshold), x) THEN MathExp(x) ELSE <<"inf", Zero>>

\* lines 167 and 188: math.exp(float(loss)) if loss < 300 else float("inf")
Perplexity(x) ==
    IF FloatLess(x, Float(PplThreshold)) THEN MathExp(x) ELSE <<"inf", Zero>>

\* previous_losses[-3:]
LastThree(s) == SubSeq(s, IF Len(s) > 3 THEN Len(s) - 2 ELSE 1, Len(s))

SeqRange(s) == {s[k] : k \in 1 .. Len(s)}

\* slip: >= in place of >
ShouldDecayLax(prev, cur) ==
    Len(prev) > 2 /\ ~FloatLess(cur, FloatMax(SeqRange(LastThree(prev))))

\* slip: the slice [-3:] left out, the loss compared with the whole history
ShouldDecayWholeHistory(prev, cur) ==
    Len(prev) > 2 /\ FloatLess(FloatMax(SeqRange(prev)), cur)

\* line 172: len(previous_losses) > 2 and loss > max(previous_losses[-3:])
ShouldDecay(prev, cur) ==
    Len(prev) > 2 /\ FloatLess(FloatMax(SeqRange(LastThree(prev))), cur)

\* sess.run(model.learning_rate_decay_op): one more multiplication by the factor
learning_rate_decay_op(lr) == lr + 1

\* line 162
CountStep(step) == step + 1

\* slip: == 1 in place of == 0
IsCheckpointStepOff(step, interval) == step % interval = 1

\* slip: the operands of % swapped
IsCheckpointStepSwapped(step, interval) == interval % step = 0

\* line 165
IsCheckpointStep(step, interval) == step % interval = 0

\* data_utils.EOS_ID in text
HasEOS(s) == EOS_ID \in SeqRange(s)

\* list.index(EOS_ID), 0-based
ListIndex(s) == SetMin({k \in 1 .. Len(s) : s[k] = EOS_ID}) - 1

\* lines 204-205, 217-218, 263-264 on a Python list
CutAtEOS(s) == IF HasEOS(s) THEN SubSeq(s, 1, ListIndex(s)) ELSE s

\* lines 211-212 on a row of the numpy array built at line 194: ndarray has
\* no method index, so the cut raises AttributeError when EOS is present
ArrayCutRaises(s) == HasEOS(s)

RECURSIVE FirstFitStrict(_, _)
\* slip: > in place of >=
FirstFitStrict(i, len) ==
    IF i >= NumBuckets THEN NumBuckets
    ELSE IF _buckets[i + 1][1] > len THEN i
    ELSE FirstFitStrict(i + 1, len)

RECURSIVE FirstFit(_, _)
\* lines 244-247: the index the for loop breaks at, NumBuckets if it runs out
FirstFit(i, len) ==
    IF i >= NumBuckets THEN NumBuckets
    ELSE IF _buckets[i + 1][1] >= len THEN i
    ELSE FirstFit(i + 1, len)

\* slip: the search for a bucket starts at the bucket of the line before
DecodeBucketFromLast(len) ==
    IF FirstFit(bucket_id, len) < NumBuckets
    THEN FirstFit(bucket_id, len) ELSE NumBuckets - 1

\* lines 243-247
DecodeBucket(len) ==
    IF FirstFit(0, len) < NumBuckets THEN FirstFit(0, len) ELSE NumBuckets - 1

\* slip: the warning tied to the last bucket in place of the loop's else
DecodeWarnsOnLast(len) == DecodeBucket(len) = NumBuckets - 1

\* lines 248-249: the for loop's else branch runs when no break happened
DecodeWarns(len) == FirstFit(0, len) = NumBuckets

\* ------------------------------------------------------------ initial states
NoText == <<>>
NoPpx == <<"none", Zero>>

\* everything a run has before its first statement, the inputs left open
Blank ==
    /\ pc = "create_model"
    /\ error = "none"
    /\ train_bucket_sizes = [b \in BucketIds |-> 0]
    /\ train_total_size = 0
    /\ train_buckets_scale = <<>>
    /\ step_time = Zero
    /\ loss = Zero
    /\ current_step = 0
    /\ previous_losses = <<>>
    /\ learning_rate = 0
    /\ global_step = 0
    /\ random_number_01 = Zero
    /\ bucket_id = 0
    /\ perplexity = NoPpx
    /\ eval_loss = Zero
    /\ eval_ppx = NoPpx
    /\ eval_calls = <<>>
    /\ show_i = 0
    /\ ori_text = NoText
    /\ out_text = NoText
    /\ target_text = NoText
    /\ sentence = 0
    /\ token_ids = 0
    /\ outputs = NoText
    /\ io = <<>>
    /\ warnings = <<>>

\* global steps of the checkpoint create_model may find in train_dir; 0 is
\* an empty train_dir (train() saves after a step only, so no checkpoint
\* carries global step 0), where the fresh model starts at global step 0
StoredSteps == {0, 7}

\* the checkpoint train_dir holds when the run begins
Stored(steps) == checkpoint \in {[step |-> s, learning_rate |-> 0] : s \in steps}

\* a data set with one example in each bucket of S and none elsewhere
DataOn(S, n) == [b \in BucketIds |-> IF b \in S THEN n ELSE 0]

\* every way of leaving held-out buckets empty
DevPatterns == {DataOn(S, DevSize) : S \in SUBSET BucketIds}

\* a run of train() on the given flags and data
TrainRun(intervals, trainSets, devSets, steps) ==
    /\ Blank
    /\ Stored(steps)
    /\ mode = "train"
    /\ steps_per_checkpoint \in intervals
    /\ train_set \in trainSets
    /\ dev_set \in devSets
    /\ stdin = <<>>

\* train(): every interval and loss sequence, on no training data, on one
\* bucket and on two buckets with empty ones before and between them
Init ==
    TrainRun(1 .. MaxInterval,
             {DataOn({}, 1), DataOn({1}, 1), DataOn({1, 3}, 1)},
             {DataOn({0, 2}, DevSize)}, StoredSteps)

\* train(): a checkpoint at every step on one training bucket and one
\* held-out bucket, every loss sequence
InitHistory ==
    TrainRun({1}, {DataOn({1}, 1)}, {DataOn({3}, DevSize)}, StoredSteps)

\* an interval over which the shares of the steps add up without rounding
\* and one over which they do not: 7 steps of loss 300 / 7 add up to
\* 299.99999999999994
LongIntervals == {2, 7}

\* train(): these intervals on one training bucket and one held-out
\* bucket, every loss sequence
InitRounding ==
    TrainRun(LongIntervals, {DataOn({1}, 1)}, {DataOn({3}, DevSize)}, StoredSteps)

\* train(): every pattern of empty held-out buckets
InitEval ==
    TrainRun({1}, {DataOn({1}, 1)}, DevPatterns, StoredSteps)

\* lines 132-152 alone, on every training set up to MaxCount per bucket
InitSelect ==
    /\ Blank
    /\ Stored(StoredSteps)
    /\ mode = "select"
    /\ steps_per_checkpoint = 1
    /\ train_set \in [BucketIds -> 0 .. MaxCount]
    /\ dev_set = DataOn({}, DevSize)
    /\ stdin = <<>>

RECURSIVE SeqsUpTo(_, _)
\* the sequences over S of length at most n
SeqsUpTo(S, n) ==
    IF n = 0 THEN {<<>>}
    ELSE LET shorter == SeqsUpTo(S, n - 1)
         IN  shorter \cup {Append(q, x) : q \in shorter, x \in S}

\* decode() on every input of at most MaxLines lines
InitDecode ==
    /\ Blank
    /\ Stored(StoredSteps)
    /\ mode = "decode"
    /\ steps_per_checkpoint = 1
    /\ train_set = DataOn({}, 1)
    /\ dev_set = DataOn({}, DevSize)
    /\ stdin \in SeqsUpTo(0 .. MaxLineLen, MaxLines)

\* ------------------------------------------------------------ create_model
\* lines 111 and 114: the line create_model prints, "Reading model
\* parameters from" the checkpoint of global step s, or for s = 0 "Created
\* model with fresh parameters."
Banner(s) == <<"banner", s>>

\* lines 109-116: print the banner, then restore the latest checkpoint,
\* global step included, or start fresh at global step 0; a restore that
\* fails raises out of create_model and out of its caller
CreateModel ==
    /\ pc = "create_model"
    /\ io' = Append(io, Banner(checkpoint.step))
    /\ \/ /\ pc' = IF mode = "decode" THEN "prompt" ELSE "read_data"
          /\ global_step' = checkpoint.step
          /\ error' = error
       \/ /\ checkpoint.step > 0
          /\ pc' = "failed"
          /\ global_step' = global_step
          /\ error' = "restore"
    /\ UNCHANGED << inputVars, scaleVars, step_time, loss, current_step,
                    previous_losses, learning_rate, checkpoint, evalVars,
                    stdin, sentence, token_ids, outputs, warnings,
                    random_number_01, bucket_id, perplexity >>

\* slip: the scale built without the division, so that no training data
\* raises nothing
ReadDataUnchecked ==
    /\ pc = "read_data"
    /\ train_bucket_sizes' = [b \in BucketIds |-> train_set[b]]
    /\ train_total_size' = SumUpTo(train_bucket_sizes', NumBuckets - 1)
    /\ train_buckets_scale' = BucketsScale(train_bucket_sizes')
    /\ pc' = "loop"
    /\ UNCHANGED << inputVars, stateVars, evalVars, decodeVars, error,
                    random_number_01, bucket_id, perplexity >>

\* ------------------------------------------------------------------- train
\* lines 129-146: bucket sizes, their total, the scale; x / 0.0 raises
ReadData ==
    /\ pc = "read_data"
    /\ train_bucket_sizes' = [b \in BucketIds |-> train_set[b]]
    /\ train_total_size' = SumUpTo(train_bucket_sizes', NumBuckets - 1)
    /\ IF train_total_size' = 0
       THEN /\ pc' = "failed"
            /\ error' = "ZeroDivisionError"
            /\ train_buckets_scale' = train_buckets_scale
       ELSE /\ pc' = "loop"
            /\ error' = error
            /\ train_buckets_scale' = BucketsScale(train_bucket_sizes')
    /\ UNCHANGED << inputVars, stateVars, evalVars, decodeVars,
                    random_number_01, bucket_id, perplexity >>

\* np.random.random_sample() returns k / 2^53 for a k in 0 .. 2^53 - 1
Sample(k) == FloatRound(k, 0 - MantissaBits, FALSE)

\* the k of the largest sample that is <= n / den
SampleBelow(n, den) == BigDivSmall(BigShl(BigFromInt(n), MantissaBits), den)[1]

\* samples tried: the largest one at or below each multiple of
\* 1 / (Resolution * total) in [0, 1)
GridDraws(total) ==
    {Sample(SampleBelow(n, Resolution * total)) : n \in 0 .. (Resolution * total - 1)}

\* the samples tried on small training sets, computed once
DrawCache == [total \in CachedInts \ {0} |-> GridDraws(total)]

Draws(total) ==
    IF total \in DOMAIN DrawCache THEN DrawCache[total] ELSE GridDraws(total)

\* samples tried at the boundaries of the scale: around each multiple of
\* 1 / (Resolution * total) in [0, 1] the sample at or below it and the
\* samples next to that one, as far as they lie in [0, 1)
EdgeDraws(total) ==
    LET at == {SampleBelow(n, Resolution * total) : n \in 0 .. (Resolution * total)}
        near == at \cup {BigAdd(k, <<1>>) : k \in at}
                   \cup {BigPred(k) : k \in at \ {<<>>}}
    IN  {Sample(k) : k \in {j \in near : BigBitLen(j) <= MantissaBits}}

\* lines 147-165: one training step, each accumulator taking its share of
\* the step in float arithmetic; the loop of line 147 has no end, the run
\* is followed for the given number of checkpoint events
TrainStepUpTo(events) ==
    /\ pc = "loop"
    /\ current_step < events * steps_per_checkpoint
    /\ \E step_loss \in StepLosses, dt \in StepTimes :
          \* line 160: step_time += (time.time() - start_time) / interval
          \* line 161: loss += step_loss / interval
          \E time_sum \in {FloatAdd(step_time, Quotient(dt, steps_per_checkpoint))},
             loss_sum \in {FloatAdd(loss, Quotient(step_loss, steps_per_checkpoint))} :
             \E u \in Draws(train_total_size) :
                /\ random_number_01' = u
                /\ bucket_id' = ChooseBucket(train_buckets_scale, u)
                /\ IF bucket_id' = -1
                   THEN /\ pc' = "failed"
                        /\ error' = "ValueError"
                        /\ UNCHANGED << step_time, loss, current_step,
                                        global_step >>
                   ELSE /\ step_time' = time_sum
                        /\ loss' = loss_sum
                        /\ global_step' = global_step + 1
                        /\ current_step' = CountStep(current_step)
                        /\ pc' = IF IsCheckpointStep(current_step',
                                                     steps_per_checkpoint)
                                 THEN "stats" ELSE "loop"
                        /\ error' = error
    /\ UNCHANGED << inputVars, scaleVars, previous_losses, learning_rate,
                    checkpoint, perplexity, evalVars, decodeVars >>

TrainStep == TrainStepUpTo(MaxCheckpoints)

\* the same iteration in a run followed for more checkpoint events
TrainStepLong == TrainStepUpTo(MaxHistory)

\* the same iteration in a run over long intervals
TrainStepRounding == TrainStepUpTo(MaxLongEvents)

\* lines 167-170
Stats ==
    /\ pc = "stats"
    /\ perplexity' = Perplexity(loss)
    /\ IF perplexity'[1] = "OverflowError"
       THEN pc' = "failed" /\ error' = "OverflowError"
       ELSE pc' = "decay" /\ error' = error
    /\ UNCHANGED << inputVars, scaleVars, stateVars, evalVars, decodeVars,
                    random_number_01, bucket_id >>

\* slip: the loss appended before the test, so the test sees it in the
\* last three
DecaySeesCurrent ==
    /\ pc = "decay"
    /\ learning_rate' = IF ShouldDecay(Append(previous_losses, loss), loss)
                        THEN learning_rate_decay_op(learning_rate)
                        ELSE learning_rate
    /\ pc' = "append"
    /\ UNCHANGED << inputVars, scaleVars, step_time, loss, current_step,
                    previous_losses, checkpoint, global_step, evalVars, decodeVars,
                    error,
                    random_number_01, bucket_id, perplexity >>

\* lines 172-173
Decay ==
    /\ pc = "decay"
    /\ learning_rate' = IF ShouldDecay(previous_losses, loss)
                        THEN learning_rate_decay_op(learning_rate)
                        ELSE learning_rate
    /\ pc' = "append"
    /\ UNCHANGED << inputVars, scaleVars, step_time, loss, current_step,
                    previous_losses, checkpoint, global_step, evalVars, decodeVars,
                    error,
                    random_number_01, bucket_id, perplexity >>

\* line 174
AppendLoss ==
    /\ pc = "append"
    /\ previous_losses' = Append(previous_losses, loss)
    /\ pc' = "save"
    /\ UNCHANGED << inputVars, scaleVars, step_time, loss, current_step,
                    learning_rate, checkpoint, global_step, evalVars, decodeVars,
                    error,
                    random_number_01, bucket_id, perplexity >>

\* slip: the exception of a failed write caught and the loop resumed
SaveSwallowed ==
    /\ pc = "save"
    /\ \/ /\ checkpoint' = [step |-> global_step, learning_rate |-> learning_rate]
          /\ error' = error
       \/ /\ checkpoint' = checkpoint
          /\ error' = "save"
    /\ pc' = "reset"
    /\ UNCHANGED << inputVars, scaleVars, step_time, loss, current_step,
                    previous_losses, learning_rate, global_step, evalVars,
                    decodeVars, random_number_01, bucket_id, perplexity >>

\* lines 176-177: model.saver.save writes the checkpoint under
\* model.global_step or raises; nothing in train() catches the exception
Save ==
    /\ pc = "save"
    /\ \/ /\ checkpoint' = [step |-> global_step, learning_rate |-> learning_rate]
          /\ pc' = "reset"
          /\ error' = error
       \/ /\ checkpoint' = checkpoint
          /\ pc' = "failed"
          /\ error' = "save"
    /\ UNCHANGED << inputVars, scaleVars, step_time, loss, current_step,
                    previous_losses, learning_rate, global_step, evalVars,
                    decodeVars, random_number_01, bucket_id, perplexity >>

\* slip: only the time accumulator reset
ResetTimeOnly ==
    /\ pc = "reset"
    /\ step_time' = Zero
    /\ loss' = loss
    /\ eval_calls' = <<>>
    /\ pc' = "eval_begin"
    /\ UNCHANGED << inputVars, scaleVars, current_step, previous_losses,
                    learning_rate, checkpoint, global_step, decodeVars, error,
                    random_number_01, bucket_id, perplexity,
                    eval_loss, eval_ppx, show_i, ori_text, out_text, target_text >>

\* line 178
ResetAccumulators ==
    /\ pc = "reset"
    /\ step_time' = Zero
    /\ loss' = Zero
    /\ eval_calls' = <<>>
    /\ pc' = "eval_begin"
    /\ UNCHANGED << inputVars, scaleVars, current_step, previous_losses,
                    learning_rate, checkpoint, global_step, decodeVars, error,
                    random_number_01, bucket_id, perplexity,
                    eval_loss, eval_ppx, show_i, ori_text, out_text, target_text >>

\* the value the for loop of line 180 gives bucket_id next
NextEvalBucket == IF pc = "eval_begin" THEN 0 ELSE bucket_id + 1

\* slip: the evaluation loss unpacked into the name of the training
\* accumulator
EvalBucketIntoLoss ==
    /\ pc \in {"eval_begin", "eval_next"}
    /\ NextEvalBucket < NumBuckets
    /\ bucket_id' = NextEvalBucket
    /\ IF dev_set[bucket_id'] = 0
       THEN /\ eval_calls' = Append(eval_calls, <<"empty", bucket_id'>>)
            /\ pc' = "eval_next"
            /\ UNCHANGED << eval_loss, eval_ppx, show_i, error, loss >>
       ELSE /\ eval_calls' = Append(eval_calls, <<"step", bucket_id'>>)
            /\ \E l \in EvalLosses :
                  /\ eval_loss' = Float(l)
                  /\ loss' = Float(l)
                  /\ eval_ppx' = Perplexity(eval_loss')
                  /\ IF eval_ppx'[1] = "OverflowError"
                     THEN pc' = "failed" /\ error' = "OverflowError"
                     ELSE pc' = "show" /\ error' = error
            /\ show_i' = 0
    /\ UNCHANGED << inputVars, scaleVars, decodeVars, step_time, current_step,
                    previous_losses, learning_rate, checkpoint, global_step,
                    random_number_01, perplexity, ori_text, out_text, target_text >>

\* lines 180-190: one turn of the loop up to the perplexity line
EvalBucket ==
    /\ pc \in {"eval_begin", "eval_next"}
    /\ NextEvalBucket < NumBuckets
    /\ bucket_id' = NextEvalBucket
    /\ IF dev_set[bucket_id'] = 0
       THEN /\ eval_calls' = Append(eval_calls, <<"empty", bucket_id'>>)
            /\ pc' = "eval_next"
            /\ UNCHANGED << eval_loss, eval_ppx, show_i, error >>
       ELSE /\ eval_calls' = Append(eval_calls, <<"step", bucket_id'>>)
            /\ \E l \in EvalLosses :
                  /\ eval_loss' = Float(l)
                  /\ eval_ppx' = Perplexity(eval_loss')
                  /\ IF eval_ppx'[1] = "OverflowError"
                     THEN pc' = "failed" /\ error' = "OverflowError"
                     ELSE pc' = "show" /\ error' = error
            /\ show_i' = 0
    /\ UNCHANGED << inputVars, scaleVars, stateVars, decodeVars,
                    random_number_01, perplexity, ori_text, out_text, target_text >>

\* token sequences the sampled rows of an evaluation batch hold
ShownTexts == {<<4>>, <<4, EOS_ID, 4>>}

\* lines 198-220: one sampled example; source and target rows are lists,
\* the generated row is a row of the array of line 194
ShowExample ==
    /\ pc = "show"
    /\ \E ori \in ShownTexts, out \in ShownTexts, target \in ShownTexts :
          /\ ori_text' = CutAtEOS(ori)
          /\ out_text' = out
          /\ IF ArrayCutRaises(out)
             THEN /\ target_text' = target
                  /\ pc' = "failed"
                  /\ error' = "AttributeError"
                  /\ show_i' = show_i
             ELSE /\ target_text' = CutAtEOS(target)
                  /\ error' = error
                  /\ IF show_i + 1 < _show_example_num
                     THEN show_i' = show_i + 1 /\ pc' = "show"
                     ELSE show_i' = show_i /\ pc' = "eval_next"
    /\ UNCHANGED << inputVars, scaleVars, stateVars, decodeVars,
                    random_number_01, bucket_id, perplexity, eval_loss, eval_ppx,
                    eval_calls >>

\* line 222, then back to line 147
EvalDone ==
    /\ pc \in {"eval_begin", "eval_next"}
    /\ NextEvalBucket = NumBuckets
    /\ pc' = "loop"
    /\ UNCHANGED << inputVars, scaleVars, stateVars, evalVars, decodeVars, error,
                    random_number_01, bucket_id, perplexity >>

\* lines 150-152 alone: the bucket selection of one training step
SelectBucket ==
    /\ pc = "loop"
    /\ \E u \in EdgeDraws(train_total_size) :
          /\ random_number_01' = u
          /\ bucket_id' = ChooseBucket(train_buckets_scale, u)
          /\ IF bucket_id' = -1
             THEN pc' = "failed" /\ error' = "ValueError"
             ELSE pc' = "selected" /\ error' = error
    /\ UNCHANGED << inputVars, scaleVars, stateVars, perplexity, evalVars,
                    decodeVars >>

\* ------------------------------------------------------------------ decode
\* slip: the line is read before its prompt is written
ReadLineUnprompted ==
    IF stdin = <<>>
    THEN /\ sentence' = -1
         /\ stdin' = stdin
         /\ io' = io \o << <<"read", -1>>, <<"prompt">> >>
    ELSE /\ sentence' = Head(stdin)
         /\ stdin' = Tail(stdin)
         /\ io' = io \o << <<"read", Head(stdin)>>, <<"prompt">> >>

\* sys.stdin.readline(): the next line, or the empty string (-1) at the end
ReadLine ==
    IF stdin = <<>>
    THEN /\ sentence' = -1
         /\ stdin' = stdin
         /\ io' = io \o << <<"prompt">>, <<"read", -1>> >>
    ELSE /\ sentence' = Head(stdin)
         /\ stdin' = Tail(stdin)
         /\ io' = io \o << <<"prompt">>, <<"read", Head(stdin)>> >>

\* lines 229-237: the first prompt and read
DecodeBegin ==
    /\ pc = "prompt"
    /\ ReadLine
    /\ pc' = "while"
    /\ UNCHANGED << inputVars, scaleVars, stateVars, evalVars, error,
                    random_number_01, bucket_id, perplexity,
                    token_ids, outputs, warnings >>

\* lines 238-249: tokenize the line and pick its bucket
DecodeSelect ==
    /\ pc = "while"
    /\ sentence # -1
    /\ token_ids' = sentence
    /\ bucket_id' = DecodeBucket(token_ids')
    /\ warnings' = IF DecodeWarns(token_ids')
                   THEN Append(warnings, sentence) ELSE warnings
    /\ pc' = "run"
    /\ UNCHANGED << inputVars, scaleVars, stateVars, evalVars, error,
                    random_number_01, perplexity, stdin, sentence, outputs, io >>

\* lines 252-266: batch, model step, greedy outputs (a list), cut, print
DecodeRun ==
    /\ pc = "run"
    /\ \E out \in ShownTexts :
          /\ outputs' = CutAtEOS(out)
          /\ io' = Append(io, <<"print", outputs'>>)
    /\ pc' = "reprompt"
    /\ UNCHANGED << inputVars, scaleVars, stateVars, evalVars, error,
                    random_number_01, bucket_id, perplexity,
                    stdin, sentence, token_ids, warnings >>

\* lines 267-270: the next prompt and read
DecodeNext ==
    /\ pc = "reprompt"
    /\ ReadLine
    /\ pc' = "while"
    /\ UNCHANGED << inputVars, scaleVars, stateVars, evalVars, error,
                    random_number_01, bucket_id, perplexity,
                    token_ids, outputs, warnings >>

\* line 238: the empty read ends the loop and decode() returns
DecodeEnd ==
    /\ pc = "while"
    /\ sentence = -1
    /\ pc' = "done"
    /\ UNCHANGED << inputVars, scaleVars, stateVars, evalVars, decodeVars, error,
                    random_number_01, bucket_id, perplexity >>

\* ---------------------------------------------------------- specifications
Next ==
    \/ CreateModel
    \/ ReadData
    \/ TrainStep
    \/ Stats
    \/ Decay
    \/ AppendLoss
    \/ Save
    \/ ResetAccumulators
    \/ EvalBucket
    \/ ShowExample
    \/ EvalDone

Spec == Init /\ [][Next]_vars

SpecEval == InitEval /\ [][Next]_vars

NextHistory ==
    \/ CreateModel
    \/ ReadData
    \/ TrainStepLong
    \/ Stats
    \/ Decay
    \/ AppendLoss
    \/ Save
    \/ ResetAccumulators
    \/ EvalBucket
    \/ ShowExample
    \/ EvalDone

SpecHistory == InitHistory /\ [][NextHistory]_vars

NextRounding ==
    \/ CreateModel
    \/ ReadData
    \/ TrainStepRounding
    \/ Stats
    \/ Decay
    \/ AppendLoss
    \/ Save
    \/ ResetAccumulators
    \/ EvalBucket
    \/ ShowExample
    \/ EvalDone

SpecRounding == InitRounding /\ [][NextRounding]_vars

NextSelect ==
    \/ CreateModel
    \/ ReadData
    \/ SelectBucket

SpecSelect == InitSelect /\ [][NextSelect]_vars

NextDecode ==
    \/ CreateModel
    \/ DecodeBegin
    \/ DecodeSelect
    \/ DecodeRun
    \/ DecodeNext
    \/ DecodeEnd

SpecDecode == InitDecode /\ [][NextDecode]_vars

\* ------------------------------------------------------------------ claims
\* the next double below x > 0
FloatPred(x) ==
    IF BigBitLen(BigPred(Mantissa(x))) < MantissaBits
    THEN Packed(BigPred(BigShl(Mantissa(x), 1)), x[1] - 1)
    ELSE Packed(BigPred(Mantissa(x)), x[1])

\* positions inside a checkpoint event (lines 166-222)
CheckpointPcs ==
    {"stats", "decay", "append", "save", "reset", "eval_begin", "eval_next", "show"}

LastLoss == previous_losses[Len(previous_losses)]

\* the entries of a loss history that exceed each of the three before them
DecayPoints(h) ==
    {k \in 4 .. Len(h) : \A j \in (k - 3) .. (k - 1) : FloatLess(h[j], h[k])}

\* C1: the decay op has run once for every checkpoint event that had at
\* least 3 losses recorded before it and a loss strictly above each of the
\* last 3 of them, and for no other event; between the decay test and the
\* append the current event counts with its own loss.
C1_DecayIffPlateau ==
    learning_rate =
        Cardinality(DecayPoints(IF pc = "append"
                                THEN Append(previous_losses, loss)
                                ELSE previous_losses))

\* the fifth checkpoint event has just decayed the rate on a loss above the
\* last three recorded ones, though not above the first one, which the
\* slice [-3:] leaves out
C1_Witness ==
    /\ pc = "append"
    /\ previous_losses = <<Float(300), Zero, Zero, Zero>>
    /\ loss = Float(300)
    /\ learning_rate = 1

\* the cumulative share of buckets 0..i as line 138 computes it: the
\* double nearest to (c_0 + ... + c_i) / total
RoundedShare(i) ==
    Quotient(SumUpTo(train_set, i), SumUpTo(train_set, NumBuckets - 1))

\* the computed cumulative share of buckets 0..i is above the draw u
ShareAbove(i, u) == FloatLess(u, RoundedShare(i))

\* the quotient (c_0 + ... + c_i) / total itself, a rational number, is
\* above the draw u = m * 2^e (e <= 0): (c_0 + ... + c_i) * 2^-e > m * total
ExactShareAbove(i, u) ==
    BigLess(BigMulSmall(Mantissa(u), SumUpTo(train_set, NumBuckets - 1)),
            BigShl(BigFromInt(SumUpTo(train_set, i)), 0 - u[1]))

\* C2 as claimed: the bucket selected for a draw u is the smallest index
\* whose cumulative share (c_0 + ... + c_i) / total is strictly above u,
\* and the selection never finds no such index.
C2_Claimed ==
    /\ error # "ValueError"
    /\ pc = "selected" =>
          /\ bucket_id \in BucketIds
          /\ ExactShareAbove(bucket_id, random_number_01)
          /\ \A j \in 0 .. (bucket_id - 1) : ~ExactShareAbove(j, random_number_01)

\* C2 as amended: the bucket selected for a draw u is the smallest index
\* whose cumulative share as computed, the double nearest to
\* (c_0 + ... + c_i) / total, is strictly above u, and the selection never
\* finds no such index.
C2_SmallestShareAbove ==
    /\ error # "ValueError"
    /\ pc = "selected" =>
          /\ bucket_id \in BucketIds
          /\ ShareAbove(bucket_id, random_number_01)
          /\ \A j \in 0 .. (bucket_id - 1) : ~ShareAbove(j, random_number_01)

\* counts 2, 1, 0, 0 and the draw 0.6666666666666666, the double nearest
\* to 2/3 and below it: the computed share of bucket 0 equals the draw, so
\* bucket 1 is selected although 2/3 itself is above the draw
C2_Witness ==
    /\ pc = "selected"
    /\ train_set = [b \in BucketIds |-> <<2, 1, 0, 0>>[b + 1]]
    /\ random_number_01 = RoundedShare(0)
    /\ ExactShareAbove(0, random_number_01)
    /\ bucket_id = 1

\* the grid points j / total, j in 0 .. total - 1, that select bucket i
GridPointsFor(i) ==
    {j \in 0 .. (train_total_size - 1) :
        ChooseBucket(train_buckets_scale, Quotient(j, train_total_size)) = i}

\* the k of a sample u = k / 2^53
SampleIndex(u) ==
    IF u = Zero THEN <<>>
    ELSE BigShr(Mantissa(u), 0 - (u[1] + MantissaBits))[1]

\* the draw lies at most one sample (2^-53) outside the interval
\* [(c_0+...+c_(i-1)) / total, (c_0+...+c_i) / total) of rational ends
NearExactInterval(i, u) ==
    /\ ~ExactShareAbove(i - 1, Sample(BigAdd(SampleIndex(u), <<1>>)))
    /\ ExactShareAbove(i, IF u = Zero THEN u ELSE Sample(BigPred(SampleIndex(u))))

\* C3 as claimed: exactly c_i of the total grid points j / total select
\* bucket i, and the draws that select bucket i are those of the interval
\* [(c_0+...+c_(i-1)) / total, (c_0+...+c_i) / total), of length exactly
\* c_i / total.
C3_Claimed ==
    pc \in {"loop", "selected"} =>
        /\ \A i \in BucketIds : Cardinality(GridPointsFor(i)) = train_set[i]
        /\ pc = "selected" =>
              /\ ~ExactShareAbove(bucket_id - 1, random_number_01)
              /\ ExactShareAbove(bucket_id, random_number_01)

\* C3 as amended: once the scale is built, exactly c_i of the total grid
\* points j / total select bucket i, and the draws that select bucket i are
\* those of the interval [s_(i-1), s_i) between the computed shares, s_i
\* the double nearest to (c_0+...+c_i) / total (s_(-1) = 0): an interval
\* that differs from the one of length c_i / total by less than one sample
\* at either end.
C3_ProportionalToOccupancy ==
    pc \in {"loop", "selected"} =>
        /\ \A i \in BucketIds : Cardinality(GridPointsFor(i)) = train_set[i]
        /\ pc = "selected" =>
              /\ ~FloatLess(random_number_01, RoundedShare(bucket_id - 1))
              /\ FloatLess(random_number_01, RoundedShare(bucket_id))
              /\ NearExactInterval(bucket_id, random_number_01)

\* unequal buckets <<2, 0, 1, 2>> and the draw 0.6, the double nearest to
\* 3/5 and below it: it equals the computed share of the first three
\* buckets and selects the last one, one sample outside [2/5, 3/5)
C3_Witness ==
    /\ pc = "selected"
    /\ train_set = [b \in BucketIds |-> <<2, 0, 1, 2>>[b + 1]]
    /\ random_number_01 = RoundedShare(2)
    /\ ExactShareAbove(2, random_number_01)
    /\ bucket_id = 3

\* the buckets whose input capacity holds a line of len tokens
Fitting(len) == {i \in BucketIds : _buckets[i + 1][1] >= len}

\* C4: the bucket selected for an input line of L tokens is the lowest
\* index whose input capacity is >= L, and the last bucket when no capacity
\* is >= L; 8 tokens select index 2 and 20 tokens select index 3.
C4_FirstFittingBucket ==
    pc = "run" =>
        /\ IF Fitting(token_ids) = {}
           THEN bucket_id = NumBuckets - 1
           ELSE /\ bucket_id \in Fitting(token_ids)
                /\ \A j \in Fitting(token_ids) : bucket_id <= j
        /\ token_ids = 8 => bucket_id = 2
        /\ token_ids = 20 => bucket_id = 3

\* an exact fit: 8 tokens go to the bucket of capacity 8
C4_Witness ==
    /\ pc = "run"
    /\ token_ids = 8
    /\ bucket_id = 2

IsLineRead(e) == e[1] = "read" /\ e[2] # -1
IsPrint(e) == e[1] = "print"
TooLong(len) == \A i \in BucketIds : _buckets[i + 1][1] < len

\* the token counts of the lines read so far, in order
LinesRead ==
    LET reads == SelectSeq(io, IsLineRead)
    IN  [k \in 1 .. Len(reads) |-> reads[k][2]]

\* the lines that have been through the bucket selection of lines 243-249
LinesSelected ==
    IF pc = "while" /\ sentence # -1
    THEN SubSeq(LinesRead, 1, Len(LinesRead) - 1)
    ELSE LinesRead

\* C5: the warnings logged are exactly the lines longer than every
\* bucket's input capacity, in input order (none for a line that fits, an
\* exact fit included); decode() raises nothing after create_model, a
\* selected line can always go on to the model step, and every line that
\* left the model step has been printed, warned or not.
C5_WarnIffOversizedAndGoOn ==
    /\ warnings = SelectSeq(LinesSelected, TooLong)
    /\ mode = "decode" => error \in {"none", "restore"}
    /\ pc = "run" => ENABLED DecodeRun
    /\ pc \in {"reprompt", "while", "done"} =>
          Len(SelectSeq(io, IsPrint)) = Len(LinesSelected)

\* a line of 20 tokens was warned about and its output printed
C5_Witness ==
    /\ pc = "reprompt"
    /\ token_ids = 20
    /\ warnings = <<20>>
    /\ io[Len(io)][1] = "print"

\* the model of the run exists: create_model has returned it
ModelCreated == pc # "create_model" /\ error # "restore"

\* the global step create_model started the run at
StartStep == global_step - current_step

\* C6: a checkpoint event is in progress only at a positive multiple of
\* steps_per_checkpoint; back in the training loop every multiple reached
\* has had its event and its checkpoint written under the global step of
\* that multiple; and the steps done since the last written checkpoint (or
\* since the start, fresh or restored) never exceed the interval.
C6_CheckpointCadence ==
    /\ pc \in CheckpointPcs =>
          current_step > 0 /\ current_step % steps_per_checkpoint = 0
    /\ pc = "loop" =>
          /\ Len(previous_losses) = current_step \div steps_per_checkpoint
          /\ checkpoint.step =
                StartStep
                + steps_per_checkpoint * (current_step \div steps_per_checkpoint)
    /\ ModelCreated =>
          /\ StartStep \in StoredSteps
          /\ global_step - checkpoint.step <= steps_per_checkpoint
          /\ global_step - checkpoint.step >= 0

\* a run restored at global step 7, one step into its second interval of 2
\* steps, the first one persisted under global step 9
C6_Witness ==
    /\ pc = "loop"
    /\ steps_per_checkpoint = 2
    /\ current_step = 3
    /\ global_step = 10
    /\ checkpoint.step = 9

\* one pass through lines 150-162
TrainingIteration == pc = "loop" /\ pc' # "failed"

\* the step count is a positive multiple of the interval
AtBoundary(step) == step > 0 /\ step % steps_per_checkpoint = 0

\* C7 as claimed: an iteration that is not a checkpoint event leaves the
\* step counters (train()'s and the model's), the learning rate and the
\* loss history unchanged.
C7_Claimed ==
    [][TrainingIteration /\ ~AtBoundary(current_step') =>
          UNCHANGED << current_step, global_step, learning_rate,
                       previous_losses >>]_vars

\* C7 as amended: the learning rate and the loss history change only while
\* the step count stands at a checkpoint boundary, so an iteration that is
\* not a checkpoint event leaves both unchanged; both step counters grow
\* by one in every iteration.
C7_RateAndHistoryOnlyAtCheckpoints ==
    [][/\ TrainingIteration =>
             /\ current_step' = current_step + 1
             /\ global_step' = global_step + 1
       /\ ~AtBoundary(current_step') =>
             UNCHANGED << learning_rate, previous_losses >>]_vars

\* the first of two steps of an interval was taken
C7_Witness ==
    /\ pc = "loop"
    /\ steps_per_checkpoint = 2
    /\ current_step = 1
    /\ loss = Float(150)
    /\ previous_losses = <<>>

\* the loss the last training perplexity was computed from
PerplexityLoss == IF pc \in {"decay", "append"} THEN loss ELSE LastLoss

\* x >= 300
AtLeastThreshold(x) == ~FloatLess(x, Float(300))

\* C8: the training perplexity is +inf exactly when the interval loss, the
\* float the accumulation left, is >= 300 and exp(loss) below 300; the same
\* for the perplexity of the last evaluated bucket and its loss;
\* OverflowError is never raised.
C8_PerplexityGuard ==
    /\ error # "OverflowError"
    /\ perplexity # NoPpx =>
          IF AtLeastThreshold(PerplexityLoss)
          THEN perplexity[1] = "inf"
          ELSE perplexity = <<"exp", PerplexityLoss>>
    /\ eval_ppx # NoPpx =>
          IF AtLeastThreshold(eval_loss)
          THEN eval_ppx[1] = "inf"
          ELSE eval_ppx = <<"exp", eval_loss>>

\* 7 steps of loss 300 over an interval of 7 left the loss
\* 299.99999999999994, the double next below 300, reported as its exp; the
\* evaluation loss of exactly 300 is reported as inf
C8_Witness ==
    /\ steps_per_checkpoint = 7
    /\ pc = "show"
    /\ LastLoss = FloatPred(Float(300))
    /\ perplexity = <<"exp", LastLoss>>
    /\ eval_loss = Float(300)
    /\ eval_ppx[1] = "inf"

\* the evaluation loop of a checkpoint event is over: it returned to the
\* training loop, or the run ended inside it
EvalLoopOver ==
    \/ pc = "loop" /\ current_step > 0
    \/ pc = "failed" /\ error = "AttributeError"

IsModelCall(e) == e[1] = "step"

\* the buckets the loop of line 180 called the model for, in call order
BucketsEvaluated ==
    LET calls == SelectSeq(eval_calls, IsModelCall)
    IN  [k \in 1 .. Len(calls) |-> calls[k][2]]

RECURSIVE NonEmptyFrom(_)
\* the non-empty held-out buckets from b on, ascending
NonEmptyFrom(b) ==
    IF b >= NumBuckets THEN <<>>
    ELSE IF dev_set[b] > 0 THEN <<b>> \o NonEmptyFrom(b + 1)
    ELSE NonEmptyFrom(b + 1)

\* C9 as claimed: when the evaluation loop of a checkpoint event is over,
\* the model has been called once for every non-empty held-out bucket, in
\* ascending order, and for no empty one, which got a warning instead.
C9_Claimed ==
    EvalLoopOver =>
        /\ BucketsEvaluated = NonEmptyFrom(0)
        /\ \A k \in 1 .. Len(eval_calls) :
              eval_calls[k][1] = "empty" => dev_set[eval_calls[k][2]] = 0

\* C10: a failed checkpoint write or restore ends the run at once: the
\* step that fails leaves the counters, the accumulators, the history and
\* the evaluation untouched, and no step is ever taken after a failure.
C10_CheckpointFailureIsFatal ==
    [][/\ pc # "failed"
       /\ error' \in {"save", "restore"} =>
             /\ pc' = "failed"
             /\ UNCHANGED << stateVars, evalVars, bucket_id >>]_vars

\* a write failed at the first checkpoint event with the loss not reset
C10_Witness ==
    /\ pc = "failed"
    /\ error = "save"
    /\ current_step = steps_per_checkpoint
    /\ loss = Float(300)
    /\ checkpoint.step = 0
    /\ eval_calls = <<>>

\* C11: on a training set with no example in any bucket, train() never
\* reaches the training loop: no draw is made, no bucket is chosen, no step
\* is counted and no loss is accumulated; the run ends while the scale is
\* built.
C11_NoSelectionWithoutData ==
    SumUpTo(train_set, NumBuckets - 1) = 0 =>
        /\ pc \in {"create_model", "read_data", "failed"}
        /\ current_step = 0
        /\ loss = Zero
        /\ step_time = Zero
        /\ random_number_01 = Zero
        /\ train_buckets_scale = <<>>
        /\ pc = "failed" => error \in {"restore", "ZeroDivisionError"}

\* the division of line 138 ended a run that had read no training data
C11_Witness ==
    /\ pc = "failed"
    /\ error = "ZeroDivisionError"
    /\ train_total_size = 0
    /\ train_bucket_sizes = [b \in BucketIds |-> 0]


\* the part of a token sequence strictly before its first EOS_ID, the whole
\* sequence when it holds none
PrefixBeforeEOS(s) ==
    IF \E k \in 1..Len(s) : s[k] = EOS_ID
    THEN SubSeq(s, 1, SetMin({k \in 1..Len(s) : s[k] = EOS_ID}) - 1)
    ELSE s

\* what the display of one row may show: the cut of a row a batch can hold
CutTexts == {PrefixBeforeEOS(r) : r \in ShownTexts} \cup {NoText}

\* C12: every token sequence the evaluation display (source, generated,
\* target) and the decode loop handle is emitted as its prefix strictly
\* before the first EOS_ID, whole when it holds none: handling a row never
\* ends the run, and no emitted sequence holds EOS_ID or a token after it.
C12_Claimed ==
    /\ error # "AttributeError"
    /\ ori_text \in CutTexts
    /\ out_text \in CutTexts
    /\ target_text \in CutTexts
    /\ outputs \in CutTexts
    /\ \A k \in 1..Len(io) : IsPrint(io[k]) => io[k][2] \in CutTexts


\* the kind of the k-th event of a run of decode(): prompt, read, print,
\* prompt, read, print, ...
EventKind(k) ==
    CASE k % 3 = 1 -> "prompt"
      [] k % 3 = 2 -> "read"
      [] OTHER     -> "print"

\* the prints made so far
Printed == SelectSeq(io, IsPrint)

\* the empty reads made so far
IsEmptyRead(e) == e[1] = "read" /\ e[2] = -1

\* the events of decode() itself: those after the banner of create_model
DecodeEvents == IF io = <<>> THEN <<>> ELSE Tail(io)

\* the events of decode() so far follow the protocol
Protocol ==
    /\ io # <<>> => io[1][1] = "banner"
    /\ \A k \in 1..Len(DecodeEvents) : DecodeEvents[k][1] = EventKind(k)
    /\ \A k \in 1..Len(io) : IsEmptyRead(io[k]) => k = Len(io) /\ stdin = <<>>
    /\ pc = "run" => Len(Printed) + 1 = Len(LinesRead)
    /\ pc \in {"reprompt", "done"} => Len(Printed) = Len(LinesRead)
    /\ pc = "done" <=> (io # <<>> /\ IsEmptyRead(io[Len(io)]) /\ ~ENABLED DecodeEnd)
    /\ (pc = "while" /\ sentence >= 0) => ENABLED DecodeSelect /\ ~ENABLED DecodeEnd
    /\ (pc = "while" /\ sentence = -1) => ENABLED DecodeEnd /\ ~ENABLED DecodeSelect

\* C13: decode() performs prompt, read, print strictly in that repeating
\* order, reads the lines of the stream in their order and prints one line
\* for each (also for a line without a token), and ends exactly when a read
\* returns the empty string, after which nothing is printed.
C13_DecodeProtocol ==
    [][ /\ Protocol'
        /\ LinesRead' \o stdin' = LinesRead \o stdin
        /\ pc = "done" => io' = io ]_vars

\* a stream of two lines, the first without a token, was answered line by
\* line and the third read ended the run
C13_Witness ==
    /\ pc = "done"
    /\ LinesRead = <<0, 3>>
    /\ Len(Printed) = 2
    /\ Len(DecodeEvents) = 8


\* the evaluation of a checkpoint event is under way
Evaluating == pc \in {"eval_begin", "eval_next", "show"}

\* C14: evaluation only observes: no step of the evaluation of a checkpoint
\* event changes the step counter, the learning rate, the loss history, the
\* reset accumulators or the persisted checkpoint, and the bucket of the
\* next training step is the smallest one whose share lies above the new
\* draw, whatever bucket the evaluation loop stopped at.
C14_EvaluationObservesOnly ==
    [][ /\ Evaluating =>
              /\ UNCHANGED stateVars
              /\ UNCHANGED scaleVars
              /\ loss = Zero /\ step_time = Zero
              /\ checkpoint = [step |-> global_step,
                               learning_rate |-> learning_rate]
        /\ (TrainingIteration /\ pc' # "failed") =>
              /\ ShareAbove(bucket_id', random_number_01')
              /\ \A i \in BucketIds :
                    i < bucket_id' => ~ShareAbove(i, random_number_01') ]_vars

\* after the evaluation of the first checkpoint event stopped at the last
\* bucket, the next training step chose bucket 1
C14_Witness ==
    /\ Len(previous_losses) = 1
    /\ current_step = steps_per_checkpoint + 1
    /\ \E k \in 1..Len(eval_calls) : eval_calls[k][2] = NumBuckets - 1
    /\ bucket_id = 1


\* a buffer of at most HistoryWindow losses after one more loss is pushed
RingPush(ring, x) ==
    IF Len(ring) < HistoryWindow THEN Append(ring, x) ELSE Append(Tail(ring), x)

\* the buffer after the losses h[k], ..., h[Len(h)] are pushed in turn
RECURSIVE RingAfter(_, _, _)
RingAfter(ring, h, k) ==
    IF k > Len(h) THEN ring ELSE RingAfter(RingPush(ring, h[k]), h, k + 1)

\* the decision of a loop that keeps the buffer only
RingDecides(ring, cur) ==
    Len(ring) = HistoryWindow /\ \A j \in 1..Len(ring) : FloatLess(ring[j], cur)

\* C15: at every checkpoint event train(), which keeps the whole loss
\* history, runs the decay op exactly when a loop fed the same losses into
\* a buffer of the last 3 would; neither does in the first three events.
C15_CappedHistoryDecidesAlike ==
    [][ pc = "decay" =>
          /\ (learning_rate' # learning_rate) =
                RingDecides(RingAfter(<<>>, previous_losses, 1), loss)
          /\ Len(previous_losses) < HistoryWindow => learning_rate' = learning_rate
      ]_vars

\* the fifth event decayed on a loss above the last three although the
\* first loss of the history, which the buffer has dropped, is as large
C15_Witness ==
    /\ previous_losses = <<Float(300), Zero, Zero, Zero, Float(300)>>
    /\ learning_rate = 1


\* the training steps taken since the current interval began
StepsIntoInterval == current_step % steps_per_checkpoint

RECURSIVE Accumulated(_, _, _)
\* what an accumulator that starts at 0.0 can hold after k steps of an
\* interval of n, each step adding v / n for a v of S in float arithmetic
Accumulated(S, n, k) ==
    IF k = 0 THEN {Zero}
    ELSE {FloatAdd(x, Quotient(v, n)) : x \in Accumulated(S, n, k - 1), v \in S}

RECURSIVE StepLossSums(_)
\* the sums k step losses can have
StepLossSums(k) ==
    IF k = 0 THEN {0} ELSE {s + l : s \in StepLossSums(k - 1), l \in StepLosses}

\* C16 as claimed: the loss a checkpoint event uses equals the sum of the
\* step losses of the steps of its interval, divided by the interval
\* length.
C16_Claimed ==
    pc \in {"stats", "decay", "append"} =>
        \E s \in StepLossSums(steps_per_checkpoint) :
            loss = Quotient(s, steps_per_checkpoint)

\* C16 as amended: the loss a checkpoint event uses is the float sum,
\* begun at 0.0, of the terms step_loss / interval of the steps of its own
\* interval and of no other step: both accumulators are zero when an
\* interval begins, every training step adds its step loss over the
\* interval and its time over the interval, a checkpoint event comes
\* after exactly `interval` of them, and its perplexity and history entry
\* use that sum.
C16_LossOfOneInterval ==
    [][ /\ TrainingIteration =>
              /\ StepsIntoInterval = 0 => (loss = Zero /\ step_time = Zero)
              /\ \E l \in StepLosses :
                    loss' = FloatAdd(loss, Quotient(l, steps_per_checkpoint))
              /\ \E dt \in StepTimes :
                    step_time' = FloatAdd(step_time,
                                          Quotient(dt, steps_per_checkpoint))
              /\ (pc' = "stats") = (StepsIntoInterval' = 0)
        /\ pc \in {"stats", "decay", "append"} =>
              /\ loss \in Accumulated(StepLosses, steps_per_checkpoint,
                                      steps_per_checkpoint)
              /\ step_time \in Accumulated(StepTimes, steps_per_checkpoint,
                                           steps_per_checkpoint)
              /\ loss' = loss
        /\ pc = "stats" =>
              \/ perplexity' = <<"exp", loss>>
              \/ perplexity'[1] = "inf"
        /\ pc = "append" => LastLoss' = loss ]_vars

\* a second interval of 7 steps of loss 0 after a first of 7 steps of loss
\* 300: the first loss is 299.99999999999994, not 2100 / 7 = 300, and the
\* second is 0.0, with nothing of the first in it
C16_Witness ==
    /\ steps_per_checkpoint = 7
    /\ pc = "save"
    /\ previous_losses = <<FloatPred(Float(300)), Zero>>
    /\ step_time = FloatPred(FloatPred(Float(1)))


\* the checkpoint events completed before the current one
EventsBefore == (current_step \div steps_per_checkpoint) - 1

\* the current loss exceeds each of the last three recorded ones
AboveLastThree ==
    /\ Len(previous_losses) >= 3
    /\ \A j \in (Len(previous_losses) - 2) .. Len(previous_losses) :
          FloatLess(previous_losses[j], loss)

\* C17: a checkpoint event runs its sub-steps in one order: perplexity of
\* the accumulated loss, decay test against the history without the
\* current loss, append, save of the step and of the rate the test left,
\* reset, evaluation; the step counter stands still from the first to the
\* last of them.
C17_CheckpointOrder ==
    [][ /\ pc = "stats" =>
              /\ pc' = "decay"
              /\ step_time \in Accumulated(StepTimes, steps_per_checkpoint,
                                           steps_per_checkpoint)
              /\ loss' = loss
        /\ pc = "decay" =>
              /\ pc' = "append"
              /\ Len(previous_losses) = EventsBefore
              /\ (learning_rate' # learning_rate) = AboveLastThree
              /\ perplexity # NoPpx
        /\ pc = "append" =>
              /\ pc' = "save"
              /\ previous_losses' = Append(previous_losses, loss)
              /\ checkpoint.step < global_step
        /\ pc = "save" =>
              /\ pc' \in {"reset", "failed"}
              /\ Len(previous_losses) = EventsBefore + 1
              /\ pc' = "reset" =>
                    checkpoint' = [step |-> global_step,
                                   learning_rate |-> learning_rate]
              /\ loss' = loss
        /\ pc = "reset" =>
              /\ pc' = "eval_begin"
              /\ checkpoint.step = global_step
              /\ loss' = Zero /\ step_time' = Zero
        /\ Evaluating =>
              /\ pc' \in {"eval_next", "show", "loop", "failed"}
              /\ loss = Zero /\ step_time = Zero
        /\ pc \in CheckpointPcs =>
              current_step' = current_step /\ global_step' = global_step
        /\ pc' \in CheckpointPcs \ {"stats"} => pc \in CheckpointPcs
        /\ pc' = "stats" => pc = "loop" ]_vars

\* the fourth event of a run restored at global step 7 decayed the rate,
\* saved the decayed rate under its global step and reset the
\* accumulators; its evaluation is about to begin
C17_Witness ==
    /\ pc = "eval_begin"
    /\ Len(previous_losses) = 4
    /\ learning_rate = 1
    /\ global_step = 7 + current_step
    /\ checkpoint = [step |-> global_step, learning_rate |-> 1]
    /\ loss = Zero


\* the buckets too small for a line of len tokens
TooSmall(len) == {i \in BucketIds : _buckets[i + 1][1] < len}

\* what a line of len tokens gets when it is the only line of a stream
AloneBucket(len) ==
    IF Cardinality(TooSmall(len)) < NumBuckets
    THEN Cardinality(TooSmall(len)) ELSE NumBuckets - 1

AloneWarns(len) == len > _buckets[NumBuckets][1]

\* C18: the bucket and the warning of an input line are those the line
\* gets alone: the step that selects them reads the line's token count and
\* nothing the lines before it left behind (bucket, warnings, outputs); a
\* short line after a long one gets its own small bucket.
C18_LineOutcomeFromLengthOnly ==
    [][ (pc = "while" /\ pc' = "run") =>
          /\ token_ids' = sentence
          /\ bucket_id' = AloneBucket(sentence)
          /\ warnings' = IF AloneWarns(sentence)
                         THEN Append(warnings, sentence) ELSE warnings ]_vars

\* a line of 3 tokens right after a line of 20 tokens that was warned
\* about: it is given bucket 0
C18_Witness ==
    /\ pc = "run"
    /\ LinesRead = <<20, 3>>
    /\ warnings = <<20>>
    /\ bucket_id = 0


\* a call to a collaborator (restore, save) failed
ExternalFailure == error \in {"restore", "save"}

\* C19: with at least one training example and every call to a
\* collaborator returning, train() never reaches an end of its own: every
\* checkpoint event and its evaluation lead back to the training loop.
C19_Claimed ==
    (SumUpTo(train_set, NumBuckets - 1) > 0 /\ ~ExternalFailure) => pc # "failed"


\* C20: on every count vector with at least one example, empty buckets at
\* the front, in the middle or at the end included, and for every draw,
\* the selection succeeds and the bucket it selects holds an example.
C20_SelectedBucketNotEmpty ==
    /\ pc = "selected" =>
          /\ bucket_id \in BucketIds
          /\ train_set[bucket_id] >= 1
    /\ train_total_size > 0 => error # "ValueError"

\* counts 0, 2, 0, 1 and the draw 0.6666666666666666, the computed share
\* of the first two buckets and of the first three: the empty bucket 2 is
\* passed over for bucket 3
C20_Witness ==
    /\ pc = "selected"
    /\ train_set = [b \in BucketIds |-> <<0, 2, 0, 1>>[b + 1]]
    /\ random_number_01 = RoundedShare(1)
    /\ bucket_id = 3

====
